---- MODULE Spec2Model ----
(***************************************************************************)
(* Model of django-tree-menu-app: the MenuItem model (menu_app/models.py)  *)
(* and the draw_menu template tag (menu_app/templatetags/menu_tags.py).    *)
(*                                                                         *)
(* Three entry points are modelled, each with its own initial states:      *)
(*   - draw_menu          (pc = "start" ... "done"), step by step;         *)
(*   - build_tree         (pc = "bt_start" ... "bt_done"), as a helper     *)
(*                        called on an arbitrary list of MenuItem rows;    *)
(*   - get_absolute_url   (pc = "url_start", "url_done").                  *)
(*                                                                         *)
(* A MenuItem row is identified by its primary key id, so rows are kept in *)
(* a table id -> fields and lists of items are lists of ids.               *)
(***************************************************************************)
EXTENDS Integers, Sequences, FiniteSets, TLC

\* ---------------------------------------------------------------- bounds
\* Largest number of MenuItem rows of the rendered menu (ids 1..MaxItems).
MaxItems == 3

\* Number of rows in the table build_tree's argument list is drawn from.
MaxBTItems == 2

\* Longest argument list handed to build_tree when called on its own.
MaxLen == 3

\* ------------------------------------------------------------ data model
\* parent_id of a root item: the ForeignKey is null (Python None).
None == 0

\* id of a MenuItem row that belongs to another Menu: MenuItem.parent may
\* reference any MenuItem, whatever its menu.
ForeignId == MaxItems + 1

\* Values of MenuItem.order used by the rows (PositiveIntegerField).
Orders == {0, 1}

\* request.path values.
CurrentPaths == {"/", "/about"}

\* The URL patterns of menu_project: only '' is routed under a name.
ProjectUrlconf == [n \in {"index"} |-> "/"]

\* (named_url, url) pairs given to the rows of a rendered menu.
ItemLocs == { [named_url |-> "", url |-> "/about"],
              [named_url |-> "index", url |-> "/about"] }

VARIABLES
    pc,           \* position inside the running entry point
    db,           \* MenuItem table: id -> [parent_id, order, named_url, url]
    menu_exists,  \* whether Menu.objects.get(name=menu_name) finds a row
    request,      \* context.get('request'): [present, path]
    urlconf,      \* URL names that reverse() resolves, with their paths
    items,        \* draw_menu: the fetched list of items
    tree,         \* draw_menu: parent_id -> list of children
    heap,         \* draw_menu: the node dicts created so far
    node_map,     \* draw_menu: item id -> node (index into heap)
    active_item,  \* draw_menu: Optional[MenuItem]
    stack,        \* draw_menu: activations of build_subtree
    ri,           \* draw_menu: position of the comprehension over the roots
    menu_tree,    \* draw_menu: list of root nodes
    anc,          \* MenuItem.ancestors: the list being built
    cur,          \* MenuItem.ancestors: the local variable parent
    ret,          \* what the entry point returned or raised
    bt_in,        \* build_tree called alone: first argument list
    bt_perm,      \* build_tree called alone: the same rows in another order
    bt_out,       \* build_tree(bt_in)
    bt_out2,      \* build_tree(bt_perm)
    u_item,       \* get_absolute_url called alone: the item (self)
    u_ret         \* get_absolute_url called alone: its outcome

vars == << pc, db, menu_exists, request, urlconf, items, tree, heap, node_map,
           active_item, stack, ri, menu_tree, anc, cur, ret,
           bt_in, bt_perm, bt_out, bt_out2, u_item, u_ret >>

dmVars == << items, tree, heap, node_map, active_item, stack, ri, menu_tree,
             anc, cur >>

btVars == << bt_in, bt_perm, bt_out, bt_out2 >>

urlVars == << u_item, u_ret >>

\* --------------------------------------------------------------- helpers
\* dict.get(key, []) on a dict whose values are lists.
DictGet(d, k) == IF k \in DOMAIN d THEN d[k] ELSE << >>

\* A sort key that forgets the order field: lambda obj: obj.id.
KeyLess_IdOnly(t, a, b) == a < b

\* The sort key of build_tree: lambda obj: (obj.order, obj.id), compared as
\* Python compares tuples.  KeyLess(t, a, b) is key(a) < key(b).
KeyLess(t, a, b) ==
    \/ t[a].order < t[b].order
    \/ t[a].order = t[b].order /\ a < b

\* list.sort is stable: an element goes after every element whose key is
\* not greater than its own.
RECURSIVE InsertSorted(_, _, _)
InsertSorted(t, s, x) ==
    IF s = << >> THEN << x >>
    ELSE IF KeyLess(t, x, Head(s)) THEN << x >> \o s
         ELSE << Head(s) >> \o InsertSorted(t, Tail(s), x)

\* build_tree without its second loop: the groups keep the input order.
SortChildren_Unsorted(t, s) == s

RECURSIVE SortChildren(_, _)
SortChildren(t, s) ==
    IF s = << >> THEN << >>
    ELSE InsertSorted(t, SortChildren(t, SubSeq(s, 1, Len(s) - 1)), s[Len(s)])

\* First loop of build_tree: tree.setdefault(parent_id, []).append(item).
RECURSIVE GroupByParent(_, _)
GroupByParent(t, s) ==
    IF s = << >> THEN << >>
    ELSE LET g == GroupByParent(t, SubSeq(s, 1, Len(s) - 1))
             x == s[Len(s)]
             k == t[x].parent_id
         IN  [ p \in DOMAIN g \cup {k} |->
                 IF p = k THEN Append(DictGet(g, k), x) ELSE g[p] ]

\* build_tree(items): group, then sort every group.
build_tree(t, s) ==
    LET g == GroupByParent(t, s)
    IN  [ p \in DOMAIN g |-> SortChildren(t, g[p]) ]

\* django.urls.reverse: the path of a known name, NoReverseMatch otherwise.
Reverse(conf, name) ==
    IF name \in DOMAIN conf
    THEN [raised |-> FALSE, val |-> conf[name]]
    ELSE [raised |-> TRUE, val |-> "NoReverseMatch"]

\* Python's  self.url or '#'.
UrlOrPlaceholder(item) == IF item.url # "" THEN item.url ELSE "#"

\* get_absolute_url without the try/except around reverse.
get_absolute_url_NoCatch(conf, item) ==
    IF item.named_url # ""
    THEN Reverse(conf, item.named_url)
    ELSE [raised |-> FALSE, val |-> UrlOrPlaceholder(item)]

\* MenuItem.get_absolute_url.
get_absolute_url(conf, item) ==
    IF item.named_url # ""
    THEN LET r == Reverse(conf, item.named_url)
         IN  IF r.raised
             THEN [raised |-> FALSE, val |-> UrlOrPlaceholder(item)]
             ELSE r
    ELSE [raised |-> FALSE, val |-> UrlOrPlaceholder(item)]

\* MenuItem.objects.filter(menu=menu).order_by('order', 'id'): the rows of
\* the menu are the ids 1..n of the table; the foreign row is not among them.
RECURSIVE IdList(_)
IdList(n) == IF n = 0 THEN << >> ELSE Append(IdList(n - 1), n)

MenuIds == DOMAIN db \ {ForeignId}

QueryItems == SortChildren(db, IdList(Cardinality(MenuIds)))

\* Roots that also take in the items whose parent is not in the menu.
RootItems_WithOrphans(tr) == DictGet(tr, None) \o DictGet(tr, ForeignId)

\* The root items: tree.get(None, []).
RootItems(tr) == DictGet(tr, None)

\* ------------------------------------------------------------ draw_menu
ItemRows(n) ==
    [ parent_id : {None} \cup (1..n) \cup {ForeignId},
      order : Orders,
      named_url : { l.named_url : l \in ItemLocs },
      url : { l.url : l \in ItemLocs } ]

ForeignRow == [parent_id |-> None, order |-> 0, named_url |-> "", url |-> "/other"]

Tables(n) ==
    { [ i \in (1..n) \cup {ForeignId} |-> IF i = ForeignId THEN ForeignRow ELSE f[i] ] :
        f \in [ 1..n -> { r \in ItemRows(n) :
                          [named_url |-> r.named_url, url |-> r.url] \in ItemLocs } ] }

NoReturn == [kind |-> "pending", raised |-> "", menu_tree |-> << >>]

IdleBT ==
    /\ bt_in = << >>
    /\ bt_perm = << >>
    /\ bt_out = << >>
    /\ bt_out2 = << >>

NoUrlReturn == [raised |-> FALSE, val |-> ""]

IdleUrl ==
    /\ u_item = ForeignRow
    /\ u_ret = NoUrlReturn

IdleDM ==
    /\ items = << >>
    /\ tree = << >>
    /\ heap = << >>
    /\ node_map = << >>
    /\ active_item = None
    /\ stack = << >>
    /\ ri = 1
    /\ menu_tree = << >>
    /\ anc = << >>
    /\ cur = None

InitDrawMenu ==
    /\ pc = "start"
    /\ menu_exists \in BOOLEAN
    /\ \E n \in 0..MaxItems :
          /\ (~menu_exists => n = 0)
          /\ db \in Tables(n)
    /\ request \in { [present |-> TRUE, path |-> p] : p \in CurrentPaths }
    /\ urlconf = ProjectUrlconf
    /\ IdleDM
    /\ IdleBT
    /\ ret = NoReturn
    /\ IdleUrl

\* The lookup of the menu without the except clause: DoesNotExist escapes.
GetMenu_NoCatch ==
    /\ pc = "start"
    /\ IF ~request.present
       THEN /\ pc' = "done"
            /\ ret' = [kind |-> "raise", raised |-> "RuntimeError", menu_tree |-> << >>]
       ELSE IF ~menu_exists
       THEN /\ pc' = "done"
            /\ ret' = [kind |-> "raise", raised |-> "DoesNotExist", menu_tree |-> << >>]
       ELSE /\ pc' = "fetch"
            /\ ret' = ret
    /\ UNCHANGED << db, menu_exists, request, urlconf, dmVars, btVars, urlVars >>

\* Lines 46-54: the request check and the lookup of the menu by name.
GetMenu ==
    /\ pc = "start"
    /\ IF ~request.present
       THEN /\ pc' = "done"
            /\ ret' = [kind |-> "raise", raised |-> "RuntimeError", menu_tree |-> << >>]
       ELSE IF ~menu_exists
       THEN /\ pc' = "done"
            /\ ret' = [kind |-> "return", raised |-> "", menu_tree |-> << >>]
       ELSE /\ pc' = "fetch"
            /\ ret' = ret
    /\ UNCHANGED << db, menu_exists, request, urlconf, dmVars, btVars, urlVars >>

\* Lines 57-68: one query for the items, build_tree, and the locals.
FetchAndGroup ==
    /\ pc = "fetch"
    /\ items' = QueryItems
    /\ tree' = build_tree(db, QueryItems)
    /\ node_map' = << >>
    /\ active_item' = None
    /\ pc' = "build"
    /\ UNCHANGED << db, menu_exists, request, urlconf, heap, stack, ri,
                    menu_tree, anc, cur, ret, btVars, urlVars >>

\* The item the next call of build_subtree is made on: the next root of the
\* comprehension of line 90, or the next child of the loop of line 85.
NextItem ==
    IF stack = << >>
    THEN IF ri <= Len(RootItems(tree)) THEN RootItems(tree)[ri] ELSE None
    ELSE LET top == stack[Len(stack)]
             ch == DictGet(tree, heap[top.node].item)
         IN  IF top.i <= Len(ch) THEN ch[top.i] ELSE None

\* Lines 70-83: a call of build_subtree up to its loop over the children.
BuildSubtreeCall ==
    /\ pc = "build"
    /\ NextItem # None
    /\ LET item == NextItem
           u == get_absolute_url(urlconf, db[item])
       IN  IF u.raised
           THEN /\ pc' = "done"
                /\ ret' = [kind |-> "raise", raised |-> u.val, menu_tree |-> << >>]
                /\ UNCHANGED << heap, node_map, active_item, stack >>
           ELSE LET is_active == (u.val = request.path)
                    node == [item |-> item, children |-> << >>,
                             active |-> is_active, open |-> FALSE]
                IN  /\ heap' = Append(heap, node)
                    /\ active_item' = IF is_active THEN item ELSE active_item
                    /\ node_map' = [ k \in DOMAIN node_map \cup {item} |->
                                       IF k = item THEN Len(heap) + 1 ELSE node_map[k] ]
                    /\ stack' = Append(stack, [node |-> Len(heap) + 1, i |-> 1])
                    /\ UNCHANGED << pc, ret >>
    /\ UNCHANGED << db, menu_exists, request, urlconf, items, tree, ri,
                    menu_tree, anc, cur, btVars, urlVars >>

\* Lines 85-87 and 90: the loop over the children is exhausted, the node is
\* returned and appended to its parent's children or to menu_tree.
BuildSubtreeReturn ==
    /\ pc = "build"
    /\ stack # << >>
    /\ NextItem = None
    /\ LET top == stack[Len(stack)]
           rest == SubSeq(stack, 1, Len(stack) - 1)
       IN  IF rest = << >>
           THEN /\ menu_tree' = Append(menu_tree, top.node)
                /\ ri' = ri + 1
                /\ stack' = rest
                /\ heap' = heap
           ELSE LET par == rest[Len(rest)]
                IN  /\ heap' = [heap EXCEPT ![par.node].children = Append(@, top.node)]
                    /\ stack' = [rest EXCEPT ![Len(rest)].i = @ + 1]
                    /\ UNCHANGED << menu_tree, ri >>
    /\ UNCHANGED << pc, db, menu_exists, request, urlconf, items, tree, node_map,
                    active_item, anc, cur, ret, btVars, urlVars >>

\* Line 93 and the first lines of MenuItem.ancestors (models.py 76-77).
AncestorsStart ==
    /\ pc = "build"
    /\ stack = << >>
    /\ NextItem = None
    /\ IF active_item # None
       THEN /\ anc' = << >>
            /\ cur' = db[active_item].parent_id
            /\ pc' = "ancestors"
       ELSE /\ pc' = "return"
            /\ UNCHANGED << anc, cur >>
    /\ UNCHANGED << db, menu_exists, request, urlconf, items, tree, heap, node_map,
                    active_item, stack, ri, menu_tree, ret, btVars, urlVars >>

\* The loop of ancestors without  parent = parent.parent.
AncestorsStep_NoAdvance ==
    /\ pc = "ancestors"
    /\ cur # None
    /\ anc' = Append(anc, cur)
    /\ cur' = cur
    /\ UNCHANGED << pc, db, menu_exists, request, urlconf, items, tree, heap,
                    node_map, active_item, stack, ri, menu_tree, ret, btVars, urlVars >>

\* models.py 78-80: one turn of  while parent.
AncestorsStep ==
    /\ pc = "ancestors"
    /\ cur # None
    /\ anc' = Append(anc, cur)
    /\ cur' = db[cur].parent_id
    /\ UNCHANGED << pc, db, menu_exists, request, urlconf, items, tree, heap,
                    node_map, active_item, stack, ri, menu_tree, ret, btVars, urlVars >>

\* The nodes lines 94-101 set open on: node_map.get of every ancestor, then
\* node_map.get of the active item.
OpenedNodes ==
    { node_map[a] : a \in { anc[j] : j \in 1..Len(anc) } \cap DOMAIN node_map }
      \cup { node_map[a] : a \in {active_item} \cap DOMAIN node_map }

\* models.py 81 and lines 94-101: the walk ended, the path is marked open.
MarkOpen ==
    /\ pc = "ancestors"
    /\ cur = None
    /\ heap' = [ h \in DOMAIN heap |->
                   IF h \in OpenedNodes THEN [heap[h] EXCEPT !.open = TRUE] ELSE heap[h] ]
    /\ pc' = "return"
    /\ UNCHANGED << db, menu_exists, request, urlconf, items, tree, node_map,
                    active_item, stack, ri, menu_tree, anc, cur, ret, btVars, urlVars >>

\* Line 103.
ReturnTree ==
    /\ pc = "return"
    /\ ret' = [kind |-> "return", raised |-> "", menu_tree |-> menu_tree]
    /\ pc' = "done"
    /\ UNCHANGED << db, menu_exists, request, urlconf, dmVars, btVars, urlVars >>

\* ----------------------------------------------- build_tree called alone
\* The rows a caller may put in the list: any parent_id and order.
BTTables ==
    [ 1..MaxBTItems -> [ parent_id : {None} \cup (1..MaxBTItems),
                         order : Orders,
                         named_url : {""},
                         url : {"/about"} ] ]

\* Lists of rows of length at most n; a row may occur more than once.
ItemLists(n) == UNION { [ 1..k -> 1..MaxBTItems ] : k \in 0..n }

ListPermutations(n) == { f \in [ 1..n -> 1..n ] : \A i, j \in 1..n : f[i] = f[j] => i = j }

InitBuildTree ==
    /\ pc = "bt_start"
    /\ db \in BTTables
    /\ bt_in \in ItemLists(MaxLen)
    /\ bt_perm = << >>
    /\ bt_out = << >>
    /\ bt_out2 = << >>
    /\ menu_exists = TRUE
    /\ request \in { [present |-> TRUE, path |-> p] : p \in {"/"} }
    /\ urlconf = ProjectUrlconf
    /\ IdleDM
    /\ IdleUrl
    /\ ret = NoReturn

\* build_tree(items), lines 11-23.
BTCall ==
    /\ pc = "bt_start"
    /\ bt_out' = build_tree(db, bt_in)
    /\ ret' = [kind |-> "return", raised |-> "", menu_tree |-> << >>]
    /\ pc' = "bt_called"
    /\ UNCHANGED << db, menu_exists, request, urlconf, dmVars, bt_in, bt_perm,
                    bt_out2, urlVars >>

\* The caller reorders the list.
BTPermute ==
    /\ pc = "bt_called"
    /\ \E f \in ListPermutations(Len(bt_in)) :
          bt_perm' = [ i \in 1..Len(bt_in) |-> bt_in[f[i]] ]
    /\ pc' = "bt_permuted"
    /\ UNCHANGED << db, menu_exists, request, urlconf, dmVars, bt_in, bt_out,
                    bt_out2, ret, urlVars >>

\* build_tree on the reordered list.
BTCallAgain ==
    /\ pc = "bt_permuted"
    /\ bt_out2' = build_tree(db, bt_perm)
    /\ pc' = "bt_done"
    /\ UNCHANGED << db, menu_exists, request, urlconf, dmVars, bt_in, bt_perm,
                    bt_out, ret, urlVars >>

\* ----------------------------------------- get_absolute_url called alone
UrlNames == {"index", "about"}

UrlPaths == {"/", "/about/"}

\* The URL configurations: every set of routed names, with their paths.
UrlConfs == UNION { [ S -> UrlPaths ] : S \in SUBSET UrlNames }

InitUrl ==
    /\ pc = "url_start"
    /\ urlconf \in UrlConfs
    /\ u_item \in [ parent_id : {None}, order : {0},
                    named_url : {"", "index", "about"},
                    url : {"", "/", "/about"} ]
    /\ u_ret = NoUrlReturn
    /\ db = << >>
    /\ menu_exists = TRUE
    /\ request \in { [present |-> TRUE, path |-> p] : p \in {"/"} }
    /\ IdleDM
    /\ IdleBT
    /\ ret = NoReturn

\* item.get_absolute_url(), models.py 59-71.
UrlCall ==
    /\ pc = "url_start"
    /\ u_ret' = get_absolute_url(urlconf, u_item)
    /\ pc' = "url_done"
    /\ UNCHANGED << db, menu_exists, request, urlconf, dmVars, btVars, ret, u_item >>

\* ---------------------------------------------------------- specification
Init == InitDrawMenu \/ InitBuildTree \/ InitUrl

Next ==
    \/ GetMenu
    \/ FetchAndGroup
    \/ BuildSubtreeCall
    \/ BuildSubtreeReturn
    \/ AncestorsStart
    \/ AncestorsStep
    \/ MarkOpen
    \/ ReturnTree
    \/ BTCall
    \/ BTPermute
    \/ BTCallAgain
    \/ UrlCall

Spec == Init /\ [][Next]_vars

\* ================================================================ claims
\* Vocabulary of the claims, defined on the table and on the returned tree
\* only (not through the operators of the model above).

\* draw_menu returned a tree for an existing menu.
Returned == pc = "done" /\ ret.kind = "return" /\ menu_exists

\* The nodes of a list of nodes and of everything beneath them, in
\* depth-first, left-to-right order.
RECURSIVE PreorderList(_)
PreorderList(s) ==
    IF s = << >> THEN << >>
    ELSE << Head(s) >> \o PreorderList(heap[Head(s)].children) \o PreorderList(Tail(s))

SeqRange(s) == { s[j] : j \in 1..Len(s) }

\* The nodes strictly beneath node h.
StrictDescendants(h) == SeqRange(PreorderList(heap[h].children))

\* The item resolves to the current location.
Matches(i) == get_absolute_url(urlconf, db[i]).val = request.path

\* A list of item ids is non-decreasing in (order, id).
NonDecreasing(t, s) ==
    \A j \in 1..(Len(s) - 1) :
        \/ t[s[j]].order < t[s[j + 1]].order
        \/ t[s[j]].order = t[s[j + 1]].order /\ s[j] <= s[j + 1]

NodeItems(s) == [ j \in 1..Len(s) |-> heap[s[j]].item ]

\* The k-th parent of item i, None once the chain has left the table.
RECURSIVE ParentPow(_, _)
ParentPow(i, k) ==
    IF k = 0 THEN i
    ELSE IF i \in DOMAIN db THEN ParentPow(db[i].parent_id, k - 1) ELSE None

NumItems == Cardinality(MenuIds)

\* Item i lies on a cycle of parent links.
OnCycle(i) == \E k \in 1..NumItems : ParentPow(i, k) = i

HasParentCycle == \E i \in MenuIds : OnCycle(i)

\* The parent chain of i never comes back to an item it has visited.
AcyclicChain(i) == \E k \in 1..(NumItems + 1) : ParentPow(i, k) = None

\* The parent chain of i ends at a root of this menu without leaving it.
ChainEndsAtRoot(i) ==
    \E k \in 0..(NumItems - 1) :
        /\ \A m \in 0..k : ParentPow(i, m) \in MenuIds
        /\ db[ParentPow(i, k)].parent_id = None

\* The parent of i is set but is no item of this menu.
Orphan(i) == db[i].parent_id # None /\ db[i].parent_id \notin MenuIds

\* --- C1 -----------------------------------------------------------------
\* C1 (as stated): in the returned tree at most one node is active, and it
\* is the first node in depth-first, left-to-right order whose item resolves
\* to the current location; every later match is not active.
C1_FirstMatchOnlyActive ==
    Returned =>
        LET po == PreorderList(ret.menu_tree)
            m == { j \in 1..Len(po) : Matches(heap[po[j]].item) }
        IN  /\ Cardinality({ j \in 1..Len(po) : heap[po[j]].active }) <= 1
            /\ \A j \in 1..Len(po) :
                  heap[po[j]].active <=> (j \in m /\ \A k \in m : j <= k)

\* --- C2 -----------------------------------------------------------------
\* C2 (as stated): in the returned tree a node is open exactly when it is
\* active or a strict ancestor of an active node.
C2_OpenIffActivePath ==
    Returned =>
        \A h \in SeqRange(PreorderList(ret.menu_tree)) :
            heap[h].open <=>
                (heap[h].active \/ \E a \in StrictDescendants(h) : heap[a].active)

\* --- C3 -----------------------------------------------------------------
\* C3: every value of the grouping map of build_tree, the root sequence and
\* every node's children are non-decreasing in (order, id), at every moment
\* of draw_menu and for every list build_tree is called on.
C3_SiblingsSorted ==
    /\ \A k \in DOMAIN tree : NonDecreasing(db, tree[k])
    /\ NonDecreasing(db, NodeItems(menu_tree))
    /\ NonDecreasing(db, NodeItems(ret.menu_tree))
    /\ \A h \in DOMAIN heap : NonDecreasing(db, NodeItems(heap[h].children))
    /\ \A k \in DOMAIN bt_out : NonDecreasing(db, bt_out[k])
    /\ \A k \in DOMAIN bt_out2 : NonDecreasing(db, bt_out2[k])

\* A returned tree in which a node has two children placed against their
\* ids because of their order fields.
C3_Witness ==
    /\ Returned
    /\ \E h \in DOMAIN heap :
          /\ Len(heap[h].children) >= 2
          /\ heap[heap[h].children[1]].item > heap[heap[h].children[2]].item

\* --- C4 -----------------------------------------------------------------
\* C4: build_tree on a list and on any permutation of it returns the same
\* grouping map (same keys, same sequence under every key); the identity
\* permutation is the second run on the same input.
C4_OrderInsensitive == (pc = "bt_done") => (bt_out = bt_out2)

\* Two different rows of one group were handed over in both orders.
C4_Witness ==
    /\ pc = "bt_done"
    /\ bt_perm # bt_in
    /\ \E k \in DOMAIN bt_out :
          /\ Len(bt_out[k]) >= 2
          /\ bt_out[k][1] # bt_out[k][2]
          /\ \E i, j \in 1..Len(bt_in) :
                /\ i < j
                /\ bt_in[i] = bt_out[k][2]
                /\ bt_in[j] = bt_out[k][1]

\* --- C5 -----------------------------------------------------------------
\* C5 (as stated): when the items of the menu contain a parent cycle,
\* draw_menu fails with CyclicParentage and returns no tree.
C5_CycleRaises ==
    (pc = "done" /\ menu_exists /\ HasParentCycle) =>
        (ret.kind = "raise" /\ ret.raised = "CyclicParentage")

\* --- C6 -----------------------------------------------------------------
\* The list holds the same id at two positions.
HasDuplicateIds(s) == \E i, j \in 1..Len(s) : i # j /\ s[i] = s[j]

\* C6 (as stated): when two entries of the list share an id, build_tree
\* fails with DuplicateIdentifier and returns no grouping.
C6_DuplicateRaises ==
    (pc \in {"bt_called", "bt_permuted", "bt_done"} /\ HasDuplicateIds(bt_in)) =>
        (ret.kind = "raise" /\ ret.raised = "DuplicateIdentifier")

PcRank ==
    CASE pc = "start" -> 0
      [] pc = "fetch" -> 1
      [] pc = "build" -> 2
      [] pc = "ancestors" -> 3
      [] pc = "return" -> 4
      [] OTHER -> 5

Variant ==
    PcRank * (3 * NumItems + 1) + Len(heap) + (Len(heap) - Len(stack)) + Len(anc)

InDrawMenu == pc \in {"start", "fetch", "build", "ancestors", "return", "done"}

\* Some step of draw_menu can be taken: the next call, return or turn of the
\* loop has the row it needs.
StepPossible ==
    \/ pc \in {"start", "fetch", "return"}
    \/ pc = "build" /\ (NextItem = None \/ NextItem \in DOMAIN db)
    \/ pc = "ancestors" /\ (cur = None \/ cur \in DOMAIN db)

\* C9: draw_menu terminates for every table, with cycles, self-parented
\* items and orphans: until it is over a step is always possible, every step
\* increases the variant, and the variant is bounded: build_subtree is
\* called at most once per item and the loop of ancestors makes fewer turns
\* than there are items.
C9_Terminates ==
    /\ [](InDrawMenu =>
            /\ Len(heap) <= NumItems
            /\ Len(stack) <= Len(heap)
            /\ (anc = << >> \/ Len(anc) < NumItems)
            /\ (pc # "done" => StepPossible))
    /\ [][InDrawMenu => Variant' > Variant]_vars

\* draw_menu is over, the table has a parent cycle and the loop of
\* ancestors has run.
C9_Witness == Returned /\ HasParentCycle /\ Len(anc) >= 1

====
